---- MODULE Spec2Model ----
(***************************************************************************)
(* A model of the GARVIS router (src/router/gar_router.py), of its patched *)
(* variant (src/router/logs/gar_ollama_proxy.py) and of the decision and   *)
(* forwarding engine they implement: alias normalization, candidate        *)
(* selection, the context/VRAM filter, latency ranking with its fallback   *)
(* ladder, and forwarding with the /api/chat fallback.                     *)
(*                                                                         *)
(* Python strings that the code takes apart (model names, prompts,         *)
(* keywords) are sequences of one-character strings; keys that the code    *)
(* only compares (endpoint keys, reasons, paths) are TLA+ strings.         *)
(***************************************************************************)
EXTENDS Integers, Sequences, FiniteSets, TLC

VARIABLES
    impl,       \* which router implementation is running
    cfg,        \* the configuration loaded at startup (never assigned again)
    nm_in,      \* the argument of the last call of _normalize_alias
    nm_out,     \* its return value
    nm_calls,   \* how many times the value was passed through it
    ev_prompt,  \* the prompt of the last call of evaluate_choice
    ev_hint,    \* its hint_model
    ev_candidates, \* its local candidates, before the filter
    ev_filtered,   \* its local filtered
    ev_out,     \* the dict it returned
    ev_state,   \* "idle" before the first call, "returned" after a call
    pc,         \* where the request handler do_POST stands
    req,        \* the request it handles: path and body
    fwd,        \* the locals of forward_generate: base_url, prompt, real_model
    target_key, \* do_POST's local target_key
    calls,      \* the backend calls made for the request, with their outcomes
    fwd_ret,    \* what forward_generate returned
    log,        \* the lines of the log file
    resp,       \* the response sent for the request
    served,     \* how many requests were received
    hu_payload, \* the payload of the last heuristic choice
    hu_key,     \* the endpoint key it chose
    hu_raised,  \* whether ENDPOINTS[key] raised KeyError
    hu_state,   \* "idle", "picked" (pick_by_keywords) or "resolved" (resolve_target)
    lg_atomic,  \* whether the platform appends to a file opened with "a" atomically
    lg_pc,      \* where each request thread stands in log_event
    lg_line,    \* the line each thread writes
    lg_pos,     \* the file offset each thread's write goes to
    lg_file,    \* the bytes of the log file, each tagged with its writer
    px_pc,      \* where the evaluator proxy's generate handler stands
    px_body,    \* the JSON body of its request
    px_ev,      \* the "evaluator" object the router answered
    px_calls,   \* the calls it made: to the router, then to the backend
    px_resp,    \* the response it sent
    th_pc,      \* where each concurrent handler thread of the router stands
    th_req,     \* the request each thread handles
    th_ev,      \* each thread's decision
    th_calls,   \* each thread's backend calls
    th_log      \* the log the threads share

nm_vars == <<nm_in, nm_out, nm_calls>>
ev_vars == <<ev_prompt, ev_hint, ev_candidates, ev_filtered, ev_out, ev_state>>
gw_vars == <<pc, req, fwd, target_key, calls, fwd_ret, log, resp, served>>
hu_vars == <<hu_payload, hu_key, hu_raised, hu_state>>
lg_vars == <<lg_atomic, lg_pc, lg_line, lg_pos, lg_file>>
px_vars == <<px_pc, px_body, px_ev, px_calls, px_resp>>
th_vars == <<th_pc, th_req, th_ev, th_calls, th_log>>

vars == <<impl, cfg, nm_vars, ev_vars, gw_vars, hu_vars, lg_vars, px_vars, th_vars>>

----------------------------------------------------------------------------
(* Python values *)

\* Python's None where a str is expected: a sequence that is no string,
\* because its one element is not a character.
None == <<"<None>">>

\* A dict key that is not set (dict.get then yields its default):
\* an optional value is the empty set or a singleton.
Missing == {}

Some(v) == {v}

\* dict.get(key, default) on an optional value
Get(opt, default) == IF opt = {} THEN default ELSE CHOOSE v \in opt : TRUE

\* Python truthiness of an optional string: None and "" are falsy
Truthy(s) == s # None /\ s # <<>>

UpperChars == <<"A", "B", "C", "D", "E", "F", "G", "H", "I", "J", "K", "L", "M",
                "N", "O", "P", "Q", "R", "S", "T", "U", "V", "W", "X", "Y", "Z">>

LowerChars == <<"a", "b", "c", "d", "e", "f", "g", "h", "i", "j", "k", "l", "m",
                "n", "o", "p", "q", "r", "s", "t", "u", "v", "w", "x", "y", "z">>

\* str.lower() of one character
LowerChar(c) ==
    IF \E i \in 1..Len(UpperChars) : UpperChars[i] = c
    THEN LowerChars[CHOOSE i \in 1..Len(UpperChars) : UpperChars[i] = c]
    ELSE c

\* str.lower()
lower(s) == [i \in 1..Len(s) |-> LowerChar(s[i])]

\* str.endswith(suffix)
endswith(s, suffix) ==
    /\ Len(s) >= Len(suffix)
    /\ SubSeq(s, Len(s) - Len(suffix) + 1, Len(s)) = suffix

\* str.removesuffix(suffix)
removesuffix(s, suffix) ==
    IF suffix # <<>> /\ endswith(s, suffix)
    THEN SubSeq(s, 1, Len(s) - Len(suffix))
    ELSE s

\* the literal ":latest"
LATEST == <<":", "l", "a", "t", "e", "s", "t">>

----------------------------------------------------------------------------
(* AliasNormalizer *)

\* gar_router.py: name.lower().removesuffix(":latest"), None for a falsy name
_normalize_alias(name) ==
    IF ~Truthy(name) THEN None
    ELSE removesuffix(lower(name), LATEST)

\* gar_ollama_proxy.py: strips the suffix, does not change the case
_normalize_alias_ollama_proxy(alias) ==
    IF ~Truthy(alias) THEN None
    ELSE IF endswith(alias, LATEST)
         THEN SubSeq(alias, 1, Len(alias) - Len(LATEST))
         ELSE alias

\* the router implementations of the repository
Impls == {"gar_router", "gar_ollama_proxy"}

normalize(which, name) ==
    IF which = "gar_router" THEN _normalize_alias(name)
    ELSE _normalize_alias_ollama_proxy(name)

----------------------------------------------------------------------------
(* Model names *)

FOO == <<"f", "o", "o">>
FooMixed == <<"F", "o", "o">>
BAR == <<"b", "a", "r">>
BarUpper == <<"B", "A", "R">>
GAR_ROUTER == <<"g", "a", "r", "-", "r", "o", "u", "t", "e", "r">>
GarRouterUpper == <<"G", "A", "R", "-", "R", "O", "U", "T", "E", "R">>
GarChatMixed == <<"G", "a", "r", "-", "C", "h", "a", "t">>
ZZZ == <<"z", "z", "z">>

BaseNames == {<<>>, FOO, FooMixed, BAR, BarUpper, GAR_ROUTER, GarRouterUpper,
              GarChatMixed, ZZZ}

Suffixes == {<<>>, LATEST, <<":", "L", "A", "T", "E", "S", "T">>,
             <<":", "L", "a", "t", "e", "s", "t">>, LATEST \o LATEST,
             <<":", "l", "a", "t", "e", "s">>, LATEST \o <<"x">>}

\* the names a caller may pass as a model name, and None
Names == {None} \cup {b \o s : b \in BaseNames, s \in Suffixes}

----------------------------------------------------------------------------
(* ConfigModel: the module-level globals read from router.yaml *)

\* HARDWARE.get(hw_key, {}): the profile of a key, {} when it has none
hardware_of(c, hw_key) ==
    IF hw_key \in DOMAIN c.HARDWARE THEN c.HARDWARE[hw_key]
    ELSE [vram_gb |-> Missing, est_tok_s |-> Missing]

\* key in INVENTORY
in_inventory(c, key) == \E i \in 1..Len(c.INVENTORY) : c.INVENTORY[i].alias = key

\* INVENTORY[key]
inventory_entry(c, key) ==
    c.INVENTORY[CHOOSE i \in 1..Len(c.INVENTORY) : c.INVENTORY[i].alias = key]

----------------------------------------------------------------------------
(* ConstraintFilter and LatencyRanker *)

\* the decision's model name in the two CPU tiers
GAR_ROUTER_LATEST == GAR_ROUTER \o LATEST

\* len(text or "")
len_or_empty(text) == IF Truthy(text) THEN Len(text) ELSE 0

Max(a, b) == IF a >= b THEN a ELSE b

\* max(1, int(len(text or "") / 4))
estimate_tokens(text) == Max(1, len_or_empty(text) \div 4)

\* prompt_tokens * (1 + margin) < ctx_tokens, the margin in hundredths:
\* the margins of the model (0, 0.2, 0.5) are those for which the double
\* product is exact wherever it meets an integer in the model's range
fits_context_inclusive(prompt_tokens, ctx_tokens, margin) ==
    prompt_tokens * (100 + margin) <= ctx_tokens * 100

fits_context(prompt_tokens, ctx_tokens, margin) ==
    prompt_tokens * (100 + margin) < ctx_tokens * 100

\* round(n / d, 0) with ties to even, as Python's round() does
RoundHalfEven(n, d) ==
    LET q == n \div d
        r == n % d
    IN  IF 2 * r < d THEN q
        ELSE IF 2 * r > d THEN q + 1
        ELSE IF q % 2 = 0 THEN q ELSE q + 1

\* the default of est_latency_s's out_tokens parameter
OUT_TOKENS == 150

\* HARDWARE.get(hw_key, {}).get("est_tok_s", 10)
DEFAULT_TOK_S == 10

\* params.get("ctx_tokens", 4096)
DEFAULT_CTX_TOKENS == 4096

\* the default of POLICY.get("min_ctx_margin", 0.2), in hundredths
DEFAULT_CTX_MARGIN == 20

\* the estimate at the default rate, whatever the hardware profile says
est_latency_s_default_rate(c, hw_key) ==
    RoundHalfEven(OUT_TOKENS * 100, Max(1, DEFAULT_TOK_S))

\* round(out_tokens / max(1, tok_s), 2), in hundredths of a second
est_latency_s(c, hw_key) ==
    LET tok_s == Get(hardware_of(c, hw_key).est_tok_s, DEFAULT_TOK_S)
    IN  RoundHalfEven(OUT_TOKENS * 100, Max(1, tok_s))

\* lines 130-137: does a candidate pass the context and the VRAM check
passes_constraints(c, meta, ptoks, margin) ==
    LET ctx_ok  == fits_context(ptoks, Get(meta.ctx_tokens, DEFAULT_CTX_TOKENS), margin)
        vram_ok == Get(meta.vram_req_gb, 0) <= Get(hardware_of(c, meta.endpoint).vram_gb, 0)
    IN  ctx_ok /\ vram_ok

\* the loop of lines 131-137: the candidates that pass, in candidate order
filter_candidates(c, candidates, ptoks, margin) ==
    SelectSeq(candidates, LAMBDA meta : passes_constraints(c, meta, ptoks, margin))

\* an unstable sort: an element goes before the elements of equal key
RECURSIVE insert_sorted_unstable(_, _, _)
insert_sorted_unstable(c, sorted_seq, meta) ==
    IF sorted_seq = <<>> THEN <<meta>>
    ELSE IF est_latency_s(c, meta.endpoint) <= est_latency_s(c, Head(sorted_seq).endpoint)
         THEN <<meta>> \o sorted_seq
         ELSE <<Head(sorted_seq)>> \o insert_sorted_unstable(c, Tail(sorted_seq), meta)

\* sorted(seq, key=...): Python's sort is stable, so an element is inserted
\* after every element whose key is not greater
RECURSIVE insert_sorted(_, _, _)
insert_sorted(c, sorted_seq, meta) ==
    IF sorted_seq = <<>> THEN <<meta>>
    ELSE IF est_latency_s(c, meta.endpoint) < est_latency_s(c, Head(sorted_seq).endpoint)
         THEN <<meta>> \o sorted_seq
         ELSE <<Head(sorted_seq)>> \o insert_sorted(c, Tail(sorted_seq), meta)

RECURSIVE sort_by_latency(_, _)
sort_by_latency(c, seq) ==
    IF seq = <<>> THEN <<>>
    ELSE insert_sorted(c, sort_by_latency(c, SubSeq(seq, 1, Len(seq) - 1)), seq[Len(seq)])

\* the dict evaluate_choice returns
Decision(model, endpoint, reason, latency, ptoks, margin) ==
    [model |-> model, endpoint |-> endpoint, reason |-> reason,
     est_latency_s |-> latency, prompt_tokens |-> ptoks, ctx_margin |-> margin]

\* no dict: the value of ev_out before evaluate_choice has returned one
NoDecision == Decision(<<>>, "", "", 0, 0, 0)

REASON_CPU_FALLBACK == "No GPU candidate fits; fallback to CPU."
REASON_FIRST_AVAILABLE == "No perfect fit; choosing first available."
REASON_NO_CANDIDATES == "No candidates at all; defaulting to CPU."
REASON_RANKED == "Chosen by strengths/context and lowest est. latency."

\* allow_cpu defaulting to False
cpu_fallback_applies_opt_in(c) ==
    Get(c.POLICY.allow_cpu, FALSE) /\ "cpu" \in DOMAIN c.ENDPOINTS

\* POLICY.get("allow_cpu", True) and "cpu" in ENDPOINTS
cpu_fallback_applies(c) ==
    Get(c.POLICY.allow_cpu, TRUE) /\ "cpu" \in DOMAIN c.ENDPOINTS

\* a ladder without its last return: the function ends without a dict
fallback_ladder_no_default(c, candidates, ptoks, margin) ==
    IF cpu_fallback_applies(c)
    THEN Decision(GAR_ROUTER_LATEST, "cpu", REASON_CPU_FALLBACK,
                  est_latency_s(c, "cpu"), ptoks, margin)
    ELSE IF candidates # <<>>
    THEN Decision(candidates[1].alias, candidates[1].endpoint, REASON_FIRST_AVAILABLE,
                  est_latency_s(c, candidates[1].endpoint), ptoks, margin)
    ELSE NoDecision

\* a ladder whose second tier takes the last candidate
fallback_ladder_last_candidate(c, candidates, ptoks, margin) ==
    LET last == candidates[Len(candidates)]
    IN  IF cpu_fallback_applies(c)
        THEN Decision(GAR_ROUTER_LATEST, "cpu", REASON_CPU_FALLBACK,
                      est_latency_s(c, "cpu"), ptoks, margin)
        ELSE IF candidates # <<>>
        THEN Decision(last.alias, last.endpoint, REASON_FIRST_AVAILABLE,
                      est_latency_s(c, last.endpoint), ptoks, margin)
        ELSE Decision(GAR_ROUTER_LATEST, "cpu", REASON_NO_CANDIDATES,
                      est_latency_s(c, "cpu"), ptoks, margin)

\* lines 139-154: the ladder taken when nothing passed the filter
fallback_ladder(c, candidates, ptoks, margin) ==
    IF cpu_fallback_applies(c)
    THEN Decision(GAR_ROUTER_LATEST, "cpu", REASON_CPU_FALLBACK,
                  est_latency_s(c, "cpu"), ptoks, margin)
    ELSE IF candidates # <<>>
    THEN Decision(candidates[1].alias, candidates[1].endpoint, REASON_FIRST_AVAILABLE,
                  est_latency_s(c, candidates[1].endpoint), ptoks, margin)
    ELSE Decision(GAR_ROUTER_LATEST, "cpu", REASON_NO_CANDIDATES,
                  est_latency_s(c, "cpu"), ptoks, margin)

\* lines 156-161: the candidate of lowest estimated latency
rank_by_latency(c, filtered, ptoks, margin) ==
    LET best == sort_by_latency(c, filtered)[1]
    IN  Decision(best.alias, best.endpoint, REASON_RANKED,
                 est_latency_s(c, best.endpoint), ptoks, margin)

\* the lookup of the hint as it was before the normalizer was added
select_candidates_raw_hint(c, prompt, hint_model) ==
    IF Truthy(hint_model) /\ in_inventory(c, hint_model)
    THEN <<inventory_entry(c, hint_model)>>
    ELSE c.INVENTORY

\* lines 121-128 of gar_router.py: the hinted entry, else the whole inventory
select_candidates(c, prompt, hint_model) ==
    LET nm == _normalize_alias(hint_model)
    IN  IF Truthy(nm) /\ in_inventory(c, nm)
        THEN <<inventory_entry(c, nm)>>
        ELSE c.INVENTORY

\* str in str
RECURSIVE contains(_, _)
contains(s, sub) ==
    IF Len(sub) > Len(s) THEN FALSE
    ELSE IF SubSeq(s, 1, Len(sub)) = sub THEN TRUE
    ELSE contains(Tail(s), sub)

\* any(k in p for k in keywords)
any_keyword(p, keywords) == \E i \in 1..Len(keywords) : contains(p, keywords[i])

\* lines 171-186 of gar_ollama_proxy.py: the hinted entry, else the entries
\* whose strengths hold a preferred tag (all entries when no tag is preferred)
select_candidates_ollama_proxy(c, prompt, hint_model) ==
    LET nm == _normalize_alias_ollama_proxy(hint_model)
        p == IF Truthy(prompt) THEN lower(prompt) ELSE <<>>
        prefer ==
            (IF any_keyword(p, c.POLICY.prefer_reasoning_for) THEN {"reasoning"} ELSE {})
            \cup (IF any_keyword(p, c.POLICY.prefer_coding_for) THEN {"coding"} ELSE {})
    IN  IF Truthy(nm) /\ in_inventory(c, nm)
        THEN <<inventory_entry(c, nm)>>
        ELSE SelectSeq(c.INVENTORY,
                       LAMBDA meta : prefer = {} \/ meta.strengths \cap prefer # {})

\* lines 130-161, common to both implementations
decide(c, candidates, ptoks, margin) ==
    LET filtered == filter_candidates(c, candidates, ptoks, margin)
    IN  IF filtered = <<>>
        THEN fallback_ladder(c, candidates, ptoks, margin)
        ELSE rank_by_latency(c, filtered, ptoks, margin)

\* float(POLICY.get("min_ctx_margin", 0.2)), in hundredths
ctx_margin(c) == Get(c.POLICY.min_ctx_margin, DEFAULT_CTX_MARGIN)

\* the local candidates of evaluate_choice in either implementation
candidates_of(which, c, prompt, hint_model) ==
    IF which = "gar_router" THEN select_candidates(c, prompt, hint_model)
    ELSE select_candidates_ollama_proxy(c, prompt, hint_model)

\* gar_router.py
evaluate_choice(c, prompt, hint_model) ==
    decide(c, select_candidates(c, prompt, hint_model),
           estimate_tokens(prompt), ctx_margin(c))

\* gar_ollama_proxy.py
evaluate_choice_ollama_proxy(c, prompt, hint_model) ==
    decide(c, select_candidates_ollama_proxy(c, prompt, hint_model),
           estimate_tokens(prompt), ctx_margin(c))

----------------------------------------------------------------------------
(* The heuristic endpoint choice of /generate *)

\* the endpoint key pick_by_keywords returns when no keyword hits
DEFAULT_TARGET == "gpu0"

\* the number of keywords of the list that occur in p
RECURSIVE hits(_, _)
hits(p, kws) ==
    IF kws = <<>> THEN 0
    ELSE (IF contains(p, Head(kws)) THEN 1 ELSE 0) + hits(p, Tail(kws))

\* max(scores, key=...) returns the first key of the highest score, in the
\* order of the dict; "gpu0" when no keyword hits
pick_by_keywords(c, prompt) ==
    LET p == IF Truthy(prompt) THEN lower(prompt) ELSE <<>>
        score(i) == hits(p, c.KEYWORDS[i].kws)
        idx == 1..Len(c.KEYWORDS)
    IN  IF \E i \in idx : score(i) > 0
        THEN c.KEYWORDS[CHOOSE i \in idx :
                            /\ \A j \in idx : score(j) <= score(i)
                            /\ \A j \in idx : j < i => score(j) < score(i)].key
        ELSE DEFAULT_TARGET

\* the keywords of the prompt before the model map
resolve_target_keywords_first(c, payload) ==
    LET model == Get(payload.model, None)
        prompt == Get(payload.prompt, <<>>)
        alias == _normalize_alias(model)
    IN  IF pick_by_keywords(c, prompt) # DEFAULT_TARGET
           \/ ~(Truthy(alias) /\ alias \in DOMAIN c.MODEL_MAP)
        THEN pick_by_keywords(c, prompt)
        ELSE c.MODEL_MAP[alias]

\* the key resolve_target looks up in ENDPOINTS: MODEL_MAP[alias] when the
\* normalized model is in MODEL_MAP, else pick_by_keywords(prompt)
resolve_target(c, payload) ==
    LET model == Get(payload.model, None)
        prompt == Get(payload.prompt, <<>>)
        alias == _normalize_alias(model)
    IN  IF Truthy(alias) /\ alias \in DOMAIN c.MODEL_MAP
        THEN c.MODEL_MAP[alias]
        ELSE pick_by_keywords(c, prompt)

----------------------------------------------------------------------------
(* Forwarder *)

\* a or b, on optional strings
Or(a, b) == IF Truthy(a) THEN a ELSE b

\* the request's own model before the upstream model
chosen_model_request_first(payload, default_model) ==
    Or(Get(payload.model, None),
       Or(Get(payload.upstream_model, None), Or(default_model, <<>>)))

\* payload.get("upstream_model") or payload.get("model") or default_model or ""
chosen_model(payload, default_model) ==
    Or(Get(payload.upstream_model, None),
       Or(Get(payload.model, None), Or(default_model, <<>>)))

\* lines 78-80: an inventory alias is replaced by the entry's real_model
real_model_of(c, chosen) ==
    IF Truthy(chosen) /\ in_inventory(c, chosen)
    THEN Get(inventory_entry(c, chosen).real_model, chosen)
    ELSE chosen

\* lines 84-86: the body of the primary call; model is set when it is truthy
gen_body(prompt, real_model) ==
    [prompt |-> prompt, stream |-> FALSE,
     model |-> IF Truthy(real_model) THEN Some(real_model) ELSE Missing]

\* lines 97-103: the body of the chat call; an empty model is popped
chat_body(prompt, real_model) ==
    [model |-> IF Truthy(Or(real_model, <<>>)) THEN Some(Or(real_model, <<>>)) ELSE Missing,
     messages |-> <<[role |-> "user", content |-> prompt]>>,
     stream |-> FALSE]

\* what a call of _post_json can end with: the parsed body, raise_for_status
\* raising HTTPError for a 4xx or 5xx status, requests.post raising for a
\* timeout or a refused connection, json.loads raising for a malformed body
Outcomes == {"ok", "http_404", "http_500", "network_error", "malformed_body"}

\* a fallback on every failure of the primary call
falls_back_on_any_failure(outcome) == outcome # "ok"

\* a fallback on every HTTP error status
falls_back_on_any_http_error(outcome) == outcome \in {"http_404", "http_500"}

\* lines 89-94: the HTTPError of a 404 is swallowed, every other error is
\* raised again or was never caught
falls_back(outcome) == outcome = "http_404"

\* a backend call: where it went, and how it ended ("pending" while in flight)
Call(url, path, body) == [url |-> url, path |-> path, body |-> body, outcome |-> "pending"]

\* the parsed response body of a successful call to a path of a backend
ResponseOf(call) == [from_url |-> call.url, from_path |-> call.path]

NoResponse == [from_url |-> "", from_path |-> ""]

----------------------------------------------------------------------------
(* The configurations and requests of the model *)

\* the most entries an inventory of the model holds
MaxInventory == 2

\* the longest prompt of the model, in estimated tokens
MaxPromptTokens == 3

EndpointKeys == {"gpu0", "gpu1", "cpu"}

URLS == [gpu0 |-> "http://127.0.0.1:11434", gpu1 |-> "http://127.0.0.1:11435",
         cpu |-> "http://127.0.0.1:11436"]

Endpoints(keys) == [k \in keys |-> URLS[k]]

Profile(vram_gb, est_tok_s) == [vram_gb |-> vram_gb, est_tok_s |-> est_tok_s]

\* a hardware map from one optional profile per key
Hardware(gpu0, gpu1, cpu) ==
    LET opt == [k \in EndpointKeys |->
                   IF k = "gpu0" THEN gpu0 ELSE IF k = "gpu1" THEN gpu1 ELSE cpu]
    IN  [k \in {x \in EndpointKeys : opt[x] # Missing} |-> CHOOSE p \in opt[k] : TRUE]

EvalHardware ==
    {Hardware(g0, g1, cp) :
        g0 \in {Missing, Some(Profile(Some(24), Some(20))), Some(Profile(Some(8), Some(10)))},
        g1 \in {Some(Profile(Some(24), Some(20))), Some(Profile(Missing, Some(40)))},
        cp \in {Missing, Some(Profile(Missing, Some(0)))}}

\* the aliases of the inventory, in insertion order
Aliases == <<FOO, BAR, GAR_ROUTER, GarChatMixed>>

\* the strength tags of the entry inserted at each position
Strengths == <<{"reasoning"}, {"coding"}, {}, {"reasoning", "coding"}>>

Entry(alias, endpoint, ctx_tokens, vram_req_gb, strengths, real_model) ==
    [alias |-> alias, endpoint |-> endpoint, ctx_tokens |-> ctx_tokens,
     vram_req_gb |-> vram_req_gb, strengths |-> strengths, real_model |-> real_model]

EvalEntries(i) ==
    {Entry(Aliases[i], e, ctx, vram, Strengths[i], Missing) :
        e \in {"gpu0", "gpu1"}, ctx \in {Missing, Some(3)}, vram \in {Missing, Some(16)}}

RECURSIVE EvalInventories(_)
EvalInventories(n) ==
    IF n = 0 THEN {<<>>}
    ELSE EvalInventories(n - 1)
         \cup {Append(inv, e) : inv \in {x \in EvalInventories(n - 1) : Len(x) = n - 1},
                                e \in EvalEntries(n)}

KW_INTEGRAL == <<"i", "n", "t", "e", "g", "r", "a", "l">>
KW_PYTHON == <<"p", "y", "t", "h", "o", "n">>

Policy(allow_cpu, min_ctx_margin) ==
    [allow_cpu |-> allow_cpu, min_ctx_margin |-> min_ctx_margin,
     prefer_reasoning_for |-> <<KW_INTEGRAL>>, prefer_coding_for |-> <<KW_PYTHON>>]

EvalPolicies ==
    {Policy(a, m) : a \in {Missing, Some(TRUE), Some(FALSE)}, m \in {Missing, Some(0)}}

\* the globals of the router; KEYWORDS is a list of (endpoint key, keyword
\* list) pairs in the order of the file, its keywords lowercased at load
GatewayConfig(endpoints, hardware, inventory, policy, model_map, keywords, default_models) ==
    [ENDPOINTS |-> endpoints, HARDWARE |-> hardware, INVENTORY |-> inventory,
     POLICY |-> policy, MODEL_MAP |-> model_map,
     KEYWORDS |-> [i \in 1..Len(keywords) |->
                      [key |-> keywords[i].key,
                       kws |-> [j \in 1..Len(keywords[i].kws) |-> lower(keywords[i].kws[j])]]],
     DEFAULT_MODELS |-> default_models]

\* a configuration without model_map, keywords and default_models
Config(endpoints, hardware, inventory, policy) ==
    GatewayConfig(endpoints, hardware, inventory, policy, <<>>, <<>>, <<>>)

EvalConfigs ==
    {Config(Endpoints(ks), hw, inv, pol) :
        ks \in {EndpointKeys, {"gpu0", "gpu1"}}, hw \in EvalHardware,
        inv \in EvalInventories(MaxInventory), pol \in EvalPolicies}

\* "x" * n
Filler(n) == [i \in 1..n |-> "x"]

\* the prompts of the model: None (a null prompt), the empty prompt, prompts
\* of every token count up to the bound, and one holding a reasoning keyword
Prompts ==
    {None}
    \cup {Filler(4 * k) : k \in 0..MaxPromptTokens}
    \cup {Filler(4 * MaxPromptTokens - 1)}
    \cup {<<"I", "n", "t", "e", "g", "r", "a", "l">>}

\* the model hints of the model
Hints == {None, BAR, FooMixed \o LATEST, ZZZ}

----------------------------------------------------------------------------
(* The gateway's configurations and requests *)

\* the most requests the gateway of the model receives
MaxRequests == 2

LLAMA == <<"l", "l", "a", "m", "a", "3">>

GatewayHardware ==
    Hardware(Some(Profile(Some(24), Some(20))), Some(Profile(Some(8), Some(40))), Missing)

\* foo fits gpu0; bar needs more VRAM than gpu1 has
GatewayInventory ==
    <<Entry(FOO, "gpu0", Missing, Missing, {"reasoning"}, Some(LLAMA)),
      Entry(BAR, "gpu1", Missing, Some(16), {"coding"}, Missing)>>

GatewayModelMap == [a \in {FOO, BAR} |-> IF a = FOO THEN "gpu0" ELSE "cpu"]

GatewayKeywords ==
    <<[key |-> "gpu1", kws |-> <<KW_PYTHON>>],
      [key |-> "cpu", kws |-> <<<<"I", "n", "t", "e", "g", "r", "a", "l">>>>]>>

GatewayDefaultModels == [k \in {"gpu0"} |-> BAR]

GatewayConfigs ==
    {GatewayConfig(Endpoints(ks), GatewayHardware, inv, Policy(a, Missing),
                   GatewayModelMap, GatewayKeywords, GatewayDefaultModels) :
        ks \in {EndpointKeys, {"gpu0", "gpu1"}, {"gpu0", "cpu"}},
        inv \in {GatewayInventory, <<>>},
        a \in {Missing, Some(FALSE)}}

\* the request paths: the three routes and one that is none of them
Paths == {"/evaluate", "/route_and_generate", "/generate", "/other"}

\* a request body: none at all, bytes that are no JSON, or a JSON object
\* whose prompt and model are each absent, null or a string
Body(kind, prompt, model) == [kind |-> kind, prompt |-> prompt, model |-> model]

Bodies ==
    {Body("none", Missing, Missing), Body("malformed", Missing, Missing)}
    \cup {Body("object", pr, m) :
            pr \in {Missing, Some(None), Some(<<"I", "n", "t", "e", "g", "r", "a", "l">>),
                    Some(Filler(4 * MaxPromptTokens))},
            m \in {Missing, Some(FooMixed \o LATEST), Some(BAR), Some(ZZZ)}}

\* a payload that never gets the decision's alias as its upstream_model
Payload_without_upstream(body, upstream_model) ==
    [prompt |-> body.prompt, model |-> body.model, upstream_model |-> Missing]

\* the dict do_POST calls payload: {} for no body
Payload(body, upstream_model) ==
    [prompt |-> body.prompt, model |-> body.model, upstream_model |-> upstream_model]

\* a line of the log (without its clock readings, elapsed_s and ts)
LogRecord(target, endpoint, len_prompt) ==
    [event |-> "route", target |-> target, endpoint |-> endpoint, len_prompt |-> len_prompt]

\* what the client is sent: the status and the fields of the JSON body
Response(status, evaluator, target, upstream, error) ==
    [status |-> status, evaluator |-> evaluator, target |-> target,
     upstream_response |-> upstream, error |-> error]

NoResponseYet == Response(0, NoDecision, "", NoResponse, "")

\* the locals of forward_generate
Forward(base_url, prompt, real_model) ==
    [base_url |-> base_url, prompt |-> prompt, real_model |-> real_model]

NoForward == Forward("", None, None)

IdleNormalizer ==
    /\ nm_in = None
    /\ nm_out = None
    /\ nm_calls = 0

IdleEvaluator ==
    /\ ev_prompt = None
    /\ ev_hint = None
    /\ ev_candidates = <<>>
    /\ ev_filtered = <<>>
    /\ ev_out = NoDecision
    /\ ev_state = "idle"

IdleGateway ==
    /\ pc = "idle"
    /\ req = [path |-> "", body |-> Body("none", Missing, Missing)]
    /\ fwd = NoForward
    /\ target_key = ""
    /\ calls = <<>>
    /\ fwd_ret = NoResponse
    /\ log = <<>>
    /\ resp = NoResponseYet
    /\ served = 0

\* the keyword lists of the heuristic path: the gateway's, one where "python"
\* is a keyword of two endpoints, and none
HeuristicKeywords ==
    {GatewayKeywords,
     <<[key |-> "cpu", kws |-> <<KW_INTEGRAL, KW_PYTHON>>],
       [key |-> "gpu1", kws |-> <<KW_PYTHON>>]>>,
     <<>>}

HeuristicConfigs ==
    {GatewayConfig(Endpoints(ks), GatewayHardware, <<>>, Policy(Missing, Missing),
                   mm, kw, GatewayDefaultModels) :
        ks \in {EndpointKeys, {"gpu0", "gpu1"}, {"gpu1", "cpu"}},
        mm \in {GatewayModelMap, <<>>},
        kw \in HeuristicKeywords}

PYTHON_INTEGRAL == KW_PYTHON \o <<" ">> \o <<"I", "n", "t", "e", "g", "r", "a", "l">>

\* the prompt of a payload: absent, null, empty, without a keyword, with one
\* keyword, with two
HeuristicPrompts ==
    {Missing, Some(None), Some(<<>>), Some(Filler(4)), Some(KW_PYTHON),
     Some(<<"I", "n", "t", "e", "g", "r", "a", "l">>), Some(PYTHON_INTEGRAL)}

HeuristicModels == {Missing, Some(None), Some(FooMixed \o LATEST), Some(BAR), Some(ZZZ)}

IdleHeuristic ==
    /\ hu_payload = Payload(Body("none", Missing, Missing), Missing)
    /\ hu_key = ""
    /\ hu_raised = FALSE
    /\ hu_state = "idle"

\* the most request threads that are in log_event at the same time
MaxThreads == 3

Threads == 1..MaxThreads

\* the line json.dumps(ev) + "\n" of a thread, as bytes tagged with the
\* thread that wrote them; len_prompt and elapsed_s make lines differ in length
Line(t, n) == [i \in 1..n |-> [writer |-> t, byte |-> i, of |-> n]]

LineLengths == {2, 3}

NoLine == <<>>

\* writing data at an offset of a file: bytes beyond the end extend it
write_at(file, pos, data) ==
    [i \in 1..Max(Len(file), pos + Len(data)) |->
        IF i > pos /\ i <= pos + Len(data) THEN data[i - pos] ELSE file[i]]

IdleLog ==
    /\ lg_atomic = TRUE
    /\ lg_pc = [t \in Threads |-> "idle"]
    /\ lg_line = [t \in Threads |-> NoLine]
    /\ lg_pos = [t \in Threads |-> 0]
    /\ lg_file = <<>>

\* the evaluator proxy (src/evaluator/evaluator_proxy.py): its router URL,
\* and the "evaluator" object of the router's answer, whose decision may
\* lack any of its keys
ROUTER_BASE == "http://127.0.0.1:28100"

ProxyDecision(model, endpoint, real_model) ==
    [model |-> model, endpoint |-> endpoint, real_model |-> real_model]

NoProxyDecision == ProxyDecision(Missing, Missing, Missing)

ProxyDecisions ==
    {ProxyDecision(m, e, r) :
        m \in {Missing, Some(<<>>), Some(FOO), Some(BAR), Some(ZZZ)},
        e \in {Missing, Some(""), Some("gpu0"), Some("cpu"), Some("tpu")},
        r \in {Missing, Some(<<>>), Some(GarChatMixed)}}

ProxyBodies ==
    {Body("malformed", Missing, Missing)}
    \cup {Body("object", pr, m) : pr \in {Missing, Some(Filler(4))}, m \in {Missing, Some(ZZZ)}}

ProxyConfigs ==
    {GatewayConfig(Endpoints(ks), GatewayHardware, GatewayInventory, Policy(Missing, Missing),
                   <<>>, <<>>, <<>>) :
        ks \in {EndpointKeys, {"gpu0", "gpu1"}}}

\* line 92: not alias_model or not endpoint_key or endpoint_key not in ENDPOINTS
invalid_decision(c, decision) ==
    \/ ~Truthy(Get(decision.model, None))
    \/ Get(decision.endpoint, "") = ""
    \/ Get(decision.endpoint, "") \notin DOMAIN c.ENDPOINTS

\* the alias itself, whatever the decision and the inventory say
proxy_real_model_alias(c, decision) == Get(decision.model, None)

\* lines 90 and 98-101: the decision's real_model, else the real_model of the
\* inventory entry of the alias, else the alias
proxy_real_model(c, decision) ==
    LET alias_model == Get(decision.model, None)
        real_model == Get(decision.real_model, None)
    IN  IF Truthy(real_model) THEN real_model
        ELSE IF in_inventory(c, alias_model)
             THEN Get(inventory_entry(c, alias_model).real_model, alias_model)
             ELSE alias_model

\* lines 114-115: dict(body) with its model replaced
upstream_body(body, real_model) == [prompt |-> body.prompt, model |-> Some(real_model)]

\* what the proxy sends: a status, the backend's body or an error text, and
\* the evaluator object or the endpoint key the error text embeds
ProxyResponse(status, content, error, ev, endpoint_key) ==
    [status |-> status, content |-> content, error |-> error, ev |-> ev,
     endpoint_key |-> endpoint_key]

NoProxyResponse == ProxyResponse(0, NoResponse, "", NoProxyDecision, "")

IdleProxy ==
    /\ px_pc = "idle"
    /\ px_body = Body("none", Missing, Missing)
    /\ px_ev = NoProxyDecision
    /\ px_calls = <<>>
    /\ px_resp = NoProxyResponse

\* the most requests the gateway handles at the same time
MaxHandlers == 2

Handlers == 1..MaxHandlers

\* the requests the concurrent handler threads receive
Request(path, body) == [path |-> path, body |-> body]

NoRequest == Request("", Body("none", Missing, Missing))

ConcRequests ==
    {Request("/evaluate", Body("object", Some(<<"I", "n", "t", "e", "g", "r", "a", "l">>), Some(BAR))),
     Request("/route_and_generate", Body("object", Some(Filler(4)), Some(ZZZ))),
     Request("/generate", Body("object", Some(KW_PYTHON), Missing)),
     Request("/generate", Body("object", Missing, Some(FooMixed \o LATEST)))}

ConcConfigs ==
    {GatewayConfig(Endpoints(EndpointKeys), GatewayHardware, GatewayInventory,
                   Policy(a, Missing), GatewayModelMap, GatewayKeywords, GatewayDefaultModels) :
        a \in {Missing, Some(FALSE)}}

\* how a backend call of a concurrent thread can end
ConcOutcomes == {"ok", "http_404", "network_error"}

\* a local of the handler every thread reads: another thread's, as if the
\* locals were one shared slot
local_shared(t, locals) == locals[1]

\* a local of the handler thread t
local(t, locals) == locals[t]

\* lines 173-174 and 179-180: the decision of a route that evaluates
decision_of(c, request) ==
    IF request.path \in {"/evaluate", "/route_and_generate"}
    THEN evaluate_choice(c, Get(request.body.prompt, <<>>), Get(request.body.model, None))
    ELSE NoDecision

\* lines 181-184 and 201: the target key and the payload of a forwarding route
target_of(c, request) ==
    IF request.path = "/route_and_generate"
    THEN decision_of(c, request).endpoint
    ELSE resolve_target(c, Payload(request.body, Missing))

forward_payload(c, request) ==
    IF request.path = "/route_and_generate"
    THEN Payload(request.body, Some(decision_of(c, request).model))
    ELSE Payload(request.body, Missing)

\* lines 76-88: the primary call forward_generate makes for a payload
primary_call(c, key, payload) ==
    LET default_model == IF key \in DOMAIN c.DEFAULT_MODELS
                         THEN c.DEFAULT_MODELS[key] ELSE None
        real_model == real_model_of(c, chosen_model(payload, default_model))
    IN  Call(c.ENDPOINTS[key], "/api/generate", gen_body(Get(payload.prompt, <<>>), real_model))

\* lines 97-104: the chat call after a 404 of the primary call
chat_call(primary) ==
    Call(primary.url, "/api/chat",
         chat_body(primary.body.prompt, Get(primary.body.model, <<>>)))

IdleThreads ==
    /\ th_pc = [t \in Handlers |-> "idle"]
    /\ th_req = [t \in Handlers |-> NoRequest]
    /\ th_ev = [t \in Handlers |-> NoDecision]
    /\ th_calls = [t \in Handlers |-> <<>>]
    /\ th_log = <<>>

----------------------------------------------------------------------------
(* Specification of the normalizer as a pure function *)

InitNormalize ==
    /\ impl \in Impls
    /\ cfg = Config(Endpoints({}), Hardware(Missing, Missing, Missing), <<>>,
                    Policy(Missing, Missing))
    /\ IdleNormalizer
    /\ IdleEvaluator
    /\ IdleGateway
    /\ IdleHeuristic
    /\ IdleLog
    /\ IdleProxy
    /\ IdleThreads

\* a caller normalizes a name
Normalize ==
    /\ \E name \in Names :
        /\ nm_in' = name
        /\ nm_out' = normalize(impl, name)
    /\ nm_calls' = 1
    /\ UNCHANGED <<impl, cfg, ev_vars, px_vars, th_vars, gw_vars, hu_vars, lg_vars>>

\* a caller normalizes a name that is already the normalizer's output
Renormalize ==
    /\ nm_calls = 1
    /\ nm_out' = normalize(impl, nm_out)
    /\ nm_calls' = 2
    /\ UNCHANGED <<impl, cfg, nm_in, ev_vars, px_vars, th_vars, gw_vars, hu_vars, lg_vars>>

NextNormalize == Normalize \/ Renormalize

SpecNormalize == InitNormalize /\ [][NextNormalize]_vars

----------------------------------------------------------------------------
(* Specification of evaluate_choice as a function of the configuration *)

InitEval ==
    /\ impl = "gar_router"
    /\ cfg \in EvalConfigs
    /\ IdleNormalizer
    /\ IdleEvaluator
    /\ IdleGateway
    /\ IdleHeuristic
    /\ IdleLog
    /\ IdleProxy
    /\ IdleThreads

\* POST /evaluate reaches evaluate_choice(prompt, hint_model)
Evaluate ==
    /\ ev_state = "idle"
    /\ \E prompt \in Prompts, hint \in Hints :
        /\ ev_prompt' = prompt
        /\ ev_hint' = hint
        /\ ev_candidates' = candidates_of(impl, cfg, prompt, hint)
        /\ ev_filtered' = filter_candidates(cfg, candidates_of(impl, cfg, prompt, hint),
                                            estimate_tokens(prompt), ctx_margin(cfg))
        /\ ev_out' = IF impl = "gar_router"
                     THEN evaluate_choice(cfg, prompt, hint)
                     ELSE evaluate_choice_ollama_proxy(cfg, prompt, hint)
    /\ ev_state' = "returned"
    /\ UNCHANGED <<impl, cfg, nm_vars, px_vars, th_vars, hu_vars, lg_vars, gw_vars>>

NextEval == Evaluate

SpecEval == InitEval /\ [][NextEval]_vars

----------------------------------------------------------------------------
(* The gateway: Handler.do_POST of gar_router.py, one request at a time *)

Init ==
    /\ impl = "gar_router"
    /\ cfg \in GatewayConfigs
    /\ IdleNormalizer
    /\ IdleEvaluator
    /\ IdleGateway
    /\ IdleHeuristic
    /\ IdleLog
    /\ IdleProxy
    /\ IdleThreads

\* the except clause of do_POST, or a return: the response ends the request
Reply(r) ==
    /\ pc' = "done"
    /\ resp' = r

\* an exception that no except clause catches: the handler ends unanswered
ReplyError_uncaught(error) ==
    /\ pc' = "crashed"
    /\ resp' = NoResponseYet

\* lines 218-221: an exception becomes a 500 with {"error": str(e)}
ReplyError(error) == Reply(Response(500, NoDecision, "", NoResponse, error))

\* evaluate_choice is called and its locals are kept
CallEvaluate(prompt, hint) ==
    /\ ev_prompt' = prompt
    /\ ev_hint' = hint
    /\ ev_candidates' = select_candidates(cfg, prompt, hint)
    /\ ev_filtered' = filter_candidates(cfg, select_candidates(cfg, prompt, hint),
                                        estimate_tokens(prompt), ctx_margin(cfg))
    /\ ev_out' = evaluate_choice(cfg, prompt, hint)
    /\ ev_state' = "returned"

\* forward_generate up to its primary call, which is then in flight
StartForward(key, payload) ==
    LET default_model == IF key \in DOMAIN cfg.DEFAULT_MODELS
                         THEN cfg.DEFAULT_MODELS[key] ELSE None
        real_model == real_model_of(cfg, chosen_model(payload, default_model))
        prompt == Get(payload.prompt, <<>>)
    IN  /\ target_key' = key
        /\ fwd' = Forward(cfg.ENDPOINTS[key], prompt, real_model)
        /\ calls' = <<Call(cfg.ENDPOINTS[key], "/api/generate", gen_body(prompt, real_model))>>
        /\ pc' = "gen_wait"
        /\ resp' = NoResponseYet

\* a backend is called although the route does not forward
NoForwarding_calls_backend ==
    /\ target_key' = DEFAULT_TARGET
    /\ fwd' = NoForward
    /\ calls' = <<Call(URLS[DEFAULT_TARGET], "/api/generate", gen_body(<<>>, None))>>

\* no backend call is made for the request
NoForwarding ==
    /\ target_key' = ""
    /\ fwd' = NoForward
    /\ calls' = <<>>

\* lines 166-170 and the dispatch on the path, up to the response or to the
\* primary backend call
Receive ==
    /\ pc = "idle"
    /\ served < MaxRequests
    /\ served' = served + 1
    /\ fwd_ret' = NoResponse
    /\ UNCHANGED <<impl, cfg, nm_vars, px_vars, th_vars, hu_vars, lg_vars, log>>
    /\ \E path \in Paths, body \in Bodies :
        LET prompt == Get(body.prompt, <<>>)
            hint == Get(body.model, None)
        IN  /\ req' = [path |-> path, body |-> body]
            /\ IF body.kind = "malformed"
               THEN \* json.loads raises
                    /\ ReplyError("JSONDecodeError")
                    /\ NoForwarding
                    /\ UNCHANGED ev_vars
               ELSE IF path = "/evaluate"
               THEN /\ CallEvaluate(prompt, hint)
                    /\ Reply(Response(200, evaluate_choice(cfg, prompt, hint), "",
                                      NoResponse, ""))
                    /\ NoForwarding
               ELSE IF path = "/route_and_generate"
               THEN /\ CallEvaluate(prompt, hint)
                    /\ LET ev == evaluate_choice(cfg, prompt, hint)
                       IN  IF ev.endpoint \in DOMAIN cfg.ENDPOINTS
                           THEN StartForward(ev.endpoint, Payload(body, Some(ev.model)))
                           ELSE \* ENDPOINTS[target_key] raises
                                /\ ReplyError("KeyError")
                                /\ NoForwarding
               ELSE IF path = "/generate"
               THEN /\ UNCHANGED ev_vars
                    /\ LET key == resolve_target(cfg, Payload(body, Missing))
                       IN  IF key \in DOMAIN cfg.ENDPOINTS
                           THEN StartForward(key, Payload(body, Missing))
                           ELSE \* ENDPOINTS[key] raises
                                /\ ReplyError("KeyError")
                                /\ NoForwarding
               ELSE \* send_error(404, ...)
                    /\ Reply(Response(404, NoDecision, "", NoResponse, "Use POST"))
                    /\ NoForwarding
                    /\ UNCHANGED ev_vars

\* forward_generate has returned: the rest of the route, lines 187-198 and
\* 205-215. len(prompt) raises for a null prompt before log_event is called.
Finish(upstream) ==
    /\ fwd_ret' = upstream
    /\ IF fwd.prompt = None
       THEN /\ ReplyError("TypeError")
            /\ UNCHANGED log
       ELSE /\ log' = Append(log, LogRecord(target_key, fwd.base_url, Len(fwd.prompt)))
            /\ Reply(Response(200,
                              IF req.path = "/route_and_generate" THEN ev_out ELSE NoDecision,
                              target_key, upstream, ""))

\* the primary call ends: lines 87-104
PrimaryReturns ==
    /\ pc = "gen_wait"
    /\ UNCHANGED <<impl, cfg, nm_vars, px_vars, th_vars, hu_vars, lg_vars, ev_vars, req, fwd, target_key, served>>
    /\ \E outcome \in Outcomes :
        LET done == [calls EXCEPT ![1].outcome = outcome]
        IN  IF outcome = "ok"
            THEN /\ calls' = done
                 /\ Finish(ResponseOf(calls[1]))
            ELSE IF falls_back(outcome)
            THEN /\ calls' = Append(done, Call(fwd.base_url, "/api/chat",
                                               chat_body(fwd.prompt, fwd.real_model)))
                 /\ pc' = "chat_wait"
                 /\ UNCHANGED <<fwd_ret, log, resp>>
            ELSE /\ calls' = done
                 /\ ReplyError(outcome)
                 /\ UNCHANGED <<fwd_ret, log>>

\* the chat call ends: line 104
ChatReturns ==
    /\ pc = "chat_wait"
    /\ UNCHANGED <<impl, cfg, nm_vars, px_vars, th_vars, hu_vars, lg_vars, ev_vars, req, fwd, target_key, served>>
    /\ \E outcome \in Outcomes :
        /\ calls' = [calls EXCEPT ![Len(calls)].outcome = outcome]
        /\ IF outcome = "ok"
           THEN Finish(ResponseOf(calls[Len(calls)]))
           ELSE /\ ReplyError(outcome)
                /\ UNCHANGED <<fwd_ret, log>>

\* do_POST has returned and its locals are gone; the log file stays
Return ==
    /\ pc = "done"
    /\ pc' = "idle"
    /\ req' = [path |-> "", body |-> Body("none", Missing, Missing)]
    /\ fwd' = NoForward
    /\ target_key' = ""
    /\ calls' = <<>>
    /\ fwd_ret' = NoResponse
    /\ resp' = NoResponseYet
    /\ ev_prompt' = None
    /\ ev_hint' = None
    /\ ev_candidates' = <<>>
    /\ ev_filtered' = <<>>
    /\ ev_out' = NoDecision
    /\ ev_state' = "idle"
    /\ UNCHANGED <<impl, cfg, nm_vars, px_vars, th_vars, hu_vars, lg_vars, log, served>>

Next == Receive \/ PrimaryReturns \/ ChatReturns \/ Return

Spec == Init /\ [][Next]_vars

----------------------------------------------------------------------------
(* Specification of the heuristic endpoint choice as a pure function *)

InitHeuristic ==
    /\ impl = "gar_router"
    /\ cfg \in HeuristicConfigs
    /\ IdleNormalizer
    /\ IdleEvaluator
    /\ IdleGateway
    /\ IdleHeuristic
    /\ IdleLog
    /\ IdleProxy
    /\ IdleThreads

\* a caller asks pick_by_keywords(prompt)
Pick ==
    /\ hu_state = "idle"
    /\ \E prompt \in HeuristicPrompts \ {Missing} :
        /\ hu_payload' = Payload(Body("object", prompt, Missing), Missing)
        /\ hu_key' = pick_by_keywords(cfg, Get(prompt, <<>>))
    /\ hu_raised' = FALSE
    /\ hu_state' = "picked"
    /\ UNCHANGED <<impl, cfg, nm_vars, px_vars, th_vars, ev_vars, gw_vars, lg_vars>>

\* POST /generate reaches resolve_target(payload); the lookup ENDPOINTS[key]
\* of its return statement raises KeyError for a key that is not configured
Resolve ==
    /\ hu_state = "idle"
    /\ \E prompt \in HeuristicPrompts, model \in HeuristicModels :
        LET payload == Payload(Body("object", prompt, model), Missing)
        IN  /\ hu_payload' = payload
            /\ hu_key' = resolve_target(cfg, payload)
            /\ hu_raised' = (resolve_target(cfg, payload) \notin DOMAIN cfg.ENDPOINTS)
    /\ hu_state' = "resolved"
    /\ UNCHANGED <<impl, cfg, nm_vars, px_vars, th_vars, ev_vars, gw_vars, lg_vars>>

NextHeuristic == Pick \/ Resolve

SpecHeuristic == InitHeuristic /\ [][NextHeuristic]_vars

----------------------------------------------------------------------------
(* Specification of log_event called by concurrent request threads *)

\* The handler threads of ThreadingHTTPServer share LOG_PATH and take no
\* lock. Each call opens the file in append mode, writes one line into the
\* file object's buffer, and flushes it when the with block closes the file.
\* Where the operating system appends atomically (O_APPEND) the flush goes to
\* the end of the file in one step; where append mode is a seek to the end
\* followed by a write, another thread's write can come in between.
InitLog ==
    /\ impl = "gar_router"
    /\ cfg = Config(Endpoints({}), Hardware(Missing, Missing, Missing), <<>>,
                    Policy(Missing, Missing))
    /\ IdleNormalizer
    /\ IdleEvaluator
    /\ IdleGateway
    /\ IdleHeuristic
    /\ IdleProxy
    /\ IdleThreads
    /\ lg_atomic \in BOOLEAN
    /\ lg_pc = [t \in Threads |-> "idle"]
    /\ lg_line = [t \in Threads |-> NoLine]
    /\ lg_pos = [t \in Threads |-> 0]
    /\ lg_file = <<>>

\* line 35: open(LOG_PATH, "a")
LogOpen(t) ==
    /\ lg_pc[t] = "idle"
    /\ lg_pc' = [lg_pc EXCEPT ![t] = "opened"]
    /\ UNCHANGED <<impl, cfg, nm_vars, px_vars, th_vars, ev_vars, gw_vars, hu_vars, lg_atomic, lg_line, lg_pos, lg_file>>

\* line 36: f.write(json.dumps(ev) + "\n") fills the buffer of the file object
LogWrite(t) ==
    /\ lg_pc[t] = "opened"
    /\ \E n \in LineLengths : lg_line' = [lg_line EXCEPT ![t] = Line(t, n)]
    /\ lg_pc' = [lg_pc EXCEPT ![t] = "buffered"]
    /\ UNCHANGED <<impl, cfg, nm_vars, px_vars, th_vars, ev_vars, gw_vars, hu_vars, lg_atomic, lg_pos, lg_file>>

\* the end of the with block flushes the buffer: an atomic append
LogAppend(t) ==
    /\ lg_atomic
    /\ lg_pc[t] = "buffered"
    /\ lg_file' = lg_file \o lg_line[t]
    /\ lg_pc' = [lg_pc EXCEPT ![t] = "closed"]
    /\ UNCHANGED <<impl, cfg, nm_vars, px_vars, th_vars, ev_vars, gw_vars, hu_vars, lg_atomic, lg_line, lg_pos>>

\* the flush where append mode is emulated: first the seek to the end
LogSeek(t) ==
    /\ ~lg_atomic
    /\ lg_pc[t] = "buffered"
    /\ lg_pos' = [lg_pos EXCEPT ![t] = Len(lg_file)]
    /\ lg_pc' = [lg_pc EXCEPT ![t] = "positioned"]
    /\ UNCHANGED <<impl, cfg, nm_vars, px_vars, th_vars, ev_vars, gw_vars, hu_vars, lg_atomic, lg_line, lg_file>>

\* then the write at the offset the seek found
LogFlush(t) ==
    /\ lg_pc[t] = "positioned"
    /\ lg_file' = write_at(lg_file, lg_pos[t], lg_line[t])
    /\ lg_pc' = [lg_pc EXCEPT ![t] = "closed"]
    /\ UNCHANGED <<impl, cfg, nm_vars, px_vars, th_vars, ev_vars, gw_vars, hu_vars, lg_atomic, lg_line, lg_pos>>

NextLog ==
    \E t \in Threads :
        LogOpen(t) \/ LogWrite(t) \/ LogAppend(t) \/ LogSeek(t) \/ LogFlush(t)

SpecLog == InitLog /\ [][NextLog]_vars

----------------------------------------------------------------------------
(* The evaluator proxy: generate of evaluator_proxy.py, one request *)

InitProxy ==
    /\ impl = "gar_router"
    /\ cfg \in ProxyConfigs
    /\ IdleNormalizer
    /\ IdleEvaluator
    /\ IdleGateway
    /\ IdleHeuristic
    /\ IdleLog
    /\ IdleProxy
    /\ IdleThreads

\* lines 73-76: the body is parsed and posted to the router's /evaluate; a
\* body that is no JSON raises before any call
ProxyReceive ==
    /\ px_pc = "idle"
    /\ \E body \in ProxyBodies :
        /\ px_body' = body
        /\ IF body.kind = "malformed"
           THEN /\ px_calls' = <<>>
                /\ px_resp' = ProxyResponse(500, NoResponse, "JSONDecodeError",
                                            NoProxyDecision, "")
                /\ px_pc' = "done"
           ELSE /\ px_calls' = <<Call(ROUTER_BASE, "/evaluate", body)>>
                /\ px_resp' = NoProxyResponse
                /\ px_pc' = "eval_wait"
    /\ UNCHANGED <<impl, cfg, nm_vars, th_vars, ev_vars, gw_vars, hu_vars, lg_vars, px_ev>>

\* lines 77-116: the router's answer, the check of the decision, and the
\* post to the backend
RouterReturns ==
    /\ px_pc = "eval_wait"
    /\ \E outcome \in Outcomes, decision \in ProxyDecisions :
        LET done == [px_calls EXCEPT ![1].outcome = outcome]
        IN  IF outcome # "ok"
            THEN /\ px_calls' = done
                 /\ px_ev' = NoProxyDecision
                 /\ px_resp' = ProxyResponse(500, NoResponse, "router/evaluate failed",
                                             NoProxyDecision, "")
                 /\ px_pc' = "done"
            ELSE IF invalid_decision(cfg, decision)
            THEN /\ px_calls' = done
                 /\ px_ev' = decision
                 /\ px_resp' = ProxyResponse(500, NoResponse, "invalid decision from evaluator",
                                             decision, "")
                 /\ px_pc' = "done"
            ELSE /\ px_calls' = Append(done,
                        Call(cfg.ENDPOINTS[Get(decision.endpoint, "")], "/api/generate",
                             upstream_body(px_body, proxy_real_model(cfg, decision))))
                 /\ px_ev' = decision
                 /\ px_resp' = NoProxyResponse
                 /\ px_pc' = "gen_wait"
    /\ UNCHANGED <<impl, cfg, nm_vars, th_vars, ev_vars, gw_vars, hu_vars, lg_vars, px_body>>

\* lines 117-126: the backend's answer is returned as it is, a failure as a
\* 500 that names the endpoint key
UpstreamReturns ==
    /\ px_pc = "gen_wait"
    /\ \E outcome \in Outcomes :
        /\ px_calls' = [px_calls EXCEPT ![2].outcome = outcome]
        /\ px_resp' = IF outcome = "ok"
                      THEN ProxyResponse(200, ResponseOf(px_calls[2]), "", NoProxyDecision, "")
                      ELSE ProxyResponse(500, NoResponse, "upstream generate failed",
                                         NoProxyDecision, Get(px_ev.endpoint, ""))
    /\ px_pc' = "done"
    /\ UNCHANGED <<impl, cfg, nm_vars, th_vars, ev_vars, gw_vars, hu_vars, lg_vars, px_body, px_ev>>

NextProxy == ProxyReceive \/ RouterReturns \/ UpstreamReturns

SpecProxy == InitProxy /\ [][NextProxy]_vars

----------------------------------------------------------------------------
(* The gateway with one handler thread per request in flight *)

InitConc ==
    /\ impl = "gar_router"
    /\ cfg \in ConcConfigs
    /\ IdleNormalizer
    /\ IdleEvaluator
    /\ IdleGateway
    /\ IdleHeuristic
    /\ IdleLog
    /\ IdleProxy
    /\ IdleThreads

\* lines 166-170: a thread is started for a request and parses its body
ConcReceive(t) ==
    /\ th_pc[t] = "idle"
    /\ \E request \in ConcRequests : th_req' = [th_req EXCEPT ![t] = request]
    /\ th_pc' = [th_pc EXCEPT ![t] = "received"]
    /\ UNCHANGED <<impl, cfg, nm_vars, ev_vars, gw_vars, hu_vars, lg_vars, px_vars,
                   th_ev, th_calls, th_log>>

\* lines 172-186 and 200-204: the thread decides from its own payload and,
\* on a forwarding route, makes the primary backend call
ConcDecide(t) ==
    /\ th_pc[t] = "received"
    /\ LET request == local(t, th_req)
           key == target_of(cfg, request)
       IN  /\ th_ev' = [th_ev EXCEPT ![t] = decision_of(cfg, request)]
           /\ IF request.path = "/evaluate" \/ key \notin DOMAIN cfg.ENDPOINTS
              THEN /\ th_calls' = th_calls
                   /\ th_pc' = [th_pc EXCEPT ![t] = "done"]
              ELSE /\ th_calls' = [th_calls EXCEPT
                                      ![t] = <<primary_call(cfg, key, forward_payload(cfg, request))>>]
                   /\ th_pc' = [th_pc EXCEPT ![t] = "gen_wait"]
    /\ UNCHANGED <<impl, cfg, nm_vars, ev_vars, gw_vars, hu_vars, lg_vars, px_vars,
                   th_req, th_log>>

\* lines 87-104 and 195-198, 212-215: a backend call of the thread ends; a
\* 404 of the primary call leads to the chat call, success to the log record
ConcBackendReturns(t) ==
    /\ th_pc[t] \in {"gen_wait", "chat_wait"}
    /\ \E outcome \in ConcOutcomes :
        LET mine == local(t, th_calls)
            done == [mine EXCEPT ![Len(mine)].outcome = outcome]
        IN  IF th_pc[t] = "gen_wait" /\ falls_back(outcome)
            THEN /\ th_calls' = [th_calls EXCEPT ![t] = Append(done, chat_call(mine[1]))]
                 /\ th_pc' = [th_pc EXCEPT ![t] = "chat_wait"]
                 /\ th_log' = th_log
            ELSE /\ th_calls' = [th_calls EXCEPT ![t] = done]
                 /\ th_pc' = [th_pc EXCEPT ![t] = "done"]
                 /\ th_log' = IF outcome = "ok"
                              THEN Append(th_log,
                                          LogRecord(target_of(cfg, local(t, th_req)), mine[1].url,
                                                    Len(mine[1].body.prompt)))
                              ELSE th_log
    /\ UNCHANGED <<impl, cfg, nm_vars, ev_vars, gw_vars, hu_vars, lg_vars, px_vars,
                   th_req, th_ev>>

NextConc ==
    \E t \in Handlers : ConcReceive(t) \/ ConcDecide(t) \/ ConcBackendReturns(t)

SpecConc == InitConc /\ [][NextConc]_vars

----------------------------------------------------------------------------
(* Properties of evaluate_choice, checked under SpecEval *)

Returned == ev_state = "returned"

\* the policy allows the CPU fallback (the key defaults to true)
AllowCpu == cfg.POLICY.allow_cpu # Some(FALSE)

CpuConfigured == "cpu" \in DOMAIN cfg.ENDPOINTS

\* the first tier of the ladder applies
CpuTier == AllowCpu /\ CpuConfigured

\* the estimated prompt tokens: max(1, floor(length / 4)), 1 for no prompt
PromptTokens ==
    IF ev_prompt = None \/ Len(ev_prompt) < 8 THEN 1 ELSE Len(ev_prompt) \div 4

\* the policy's margin in hundredths, 0.2 when the policy sets none
MarginPct == IF cfg.POLICY.min_ctx_margin = Missing THEN 20
             ELSE CHOOSE m \in cfg.POLICY.min_ctx_margin : TRUE

\* the tokens/second of an endpoint's profile, 10 when it states none
TokensPerSecond(key) ==
    IF key \in DOMAIN cfg.HARDWARE /\ cfg.HARDWARE[key].est_tok_s # Missing
    THEN CHOOSE t \in cfg.HARDWARE[key].est_tok_s : TRUE
    ELSE 10

\* the inventory entry at position i is the one the hint names
HintNames(i) ==
    /\ ev_hint # None
    /\ ev_hint # <<>>
    /\ \/ lower(ev_hint) = cfg.INVENTORY[i].alias
       \/ lower(ev_hint) = cfg.INVENTORY[i].alias \o LATEST

HintResolves == \E i \in 1..Len(cfg.INVENTORY) : HintNames(i)

\* C1: the endpoint key of every returned decision is one of the configured
\* endpoints.
C1_EndpointConfigured ==
    Returned => ev_out.endpoint \in DOMAIN cfg.ENDPOINTS

\* C2: every call of evaluate_choice returns a decision that names a model,
\* an endpoint key, a reason, a latency estimate and the constraint inputs,
\* whatever the prompt, the hint and the inventory.
C2_AlwaysDecision ==
    Returned =>
        /\ ev_out # NoDecision
        /\ ev_out.model # None /\ ev_out.model # <<>>
        /\ ev_out.endpoint \in EndpointKeys
        /\ ev_out.reason \in {REASON_CPU_FALLBACK, REASON_FIRST_AVAILABLE,
                              REASON_NO_CANDIDATES, REASON_RANKED}
        /\ ev_out.est_latency_s > 0
        /\ ev_out.prompt_tokens = PromptTokens
        /\ ev_out.ctx_margin = MarginPct

\* a decision was returned for a null prompt and an unknown alias on an empty
\* inventory
C2_Witness ==
    /\ Returned
    /\ cfg.INVENTORY = <<>>
    /\ ev_prompt = None
    /\ ev_hint = ZZZ
    /\ ev_out.reason = REASON_NO_CANDIDATES

\* C3: when nothing survives the filter, the policy allows the CPU and a cpu
\* endpoint is configured, the decision targets cpu and its reason is the
\* "fallback to CPU" one.
C3_CpuFallback ==
    (Returned /\ ev_filtered = <<>> /\ AllowCpu /\ CpuConfigured) =>
        /\ ev_out.endpoint = "cpu"
        /\ ev_out.reason = "No GPU candidate fits; fallback to CPU."

\* the CPU fallback was taken with a resolving hint, two inventory entries and
\* a policy that does not set allow_cpu
C3_Witness ==
    /\ Returned
    /\ ev_filtered = <<>>
    /\ cfg.POLICY.allow_cpu = Missing
    /\ CpuConfigured
    /\ Len(cfg.INVENTORY) = 2
    /\ Len(ev_candidates) = 1
    /\ ev_out.endpoint = "cpu"

\* C4: when nothing survives the filter and the CPU tier does not apply, the
\* decision is the first pre-filter candidate if there is one, and only
\* otherwise the cpu endpoint with the "no candidates at all" reason.
C4_RemainingTiers ==
    (Returned /\ ev_filtered = <<>> /\ ~CpuTier) =>
        IF ev_candidates # <<>>
        THEN /\ ev_out.model = ev_candidates[1].alias
             /\ ev_out.endpoint = ev_candidates[1].endpoint
             /\ ev_out.reason = "No perfect fit; choosing first available."
        ELSE /\ ev_out.endpoint = "cpu"
             /\ ev_out.reason = "No candidates at all; defaulting to CPU."

\* the second tier was taken with two pre-filter candidates on different
\* endpoints
C4_Witness ==
    /\ Returned
    /\ ev_filtered = <<>>
    /\ ~CpuTier
    /\ Len(ev_candidates) = 2
    /\ ev_candidates[1].endpoint # ev_candidates[2].endpoint
    /\ ev_out.model = ev_candidates[1].alias

\* the latency estimate of a filtered candidate's endpoint, in hundredths
LatencyOf(i) == est_latency_s(cfg, ev_filtered[i].endpoint)

\* C5: with a non-empty filtered list the decision is the filtered candidate
\* of minimum estimated latency, and the first such candidate in candidate
\* order.
C5_MinLatencyFirst ==
    (Returned /\ ev_filtered # <<>>) =>
        \E i \in 1..Len(ev_filtered) :
            /\ ev_out.model = ev_filtered[i].alias
            /\ ev_out.endpoint = ev_filtered[i].endpoint
            /\ \A j \in 1..Len(ev_filtered) : LatencyOf(i) <= LatencyOf(j)
            /\ \A j \in 1..(i - 1) : LatencyOf(j) > LatencyOf(i)

\* two filtered candidates on different endpoints of equal estimated latency:
\* the first was chosen
C5_Witness ==
    /\ Returned
    /\ Len(ev_filtered) = 2
    /\ ev_filtered[1].endpoint # ev_filtered[2].endpoint
    /\ LatencyOf(1) = LatencyOf(2)
    /\ ev_out.model = ev_filtered[1].alias

\* C6: a hint that names an inventory entry after lowercasing and stripping
\* ":latest" makes that entry the only candidate; no other entry is chosen,
\* and the entry is the decision when it passes the filter.
C6_HintWins ==
    Returned =>
        \A i \in 1..Len(cfg.INVENTORY) :
            HintNames(i) =>
                /\ ev_candidates = <<cfg.INVENTORY[i]>>
                /\ \A j \in 1..Len(cfg.INVENTORY) :
                       j # i => ev_out.model # cfg.INVENTORY[j].alias
                /\ ev_filtered # <<>> =>
                       /\ ev_out.model = cfg.INVENTORY[i].alias
                       /\ ev_out.endpoint = cfg.INVENTORY[i].endpoint

\* the hint "Foo:latest" named the first entry, which passed the filter and was
\* chosen although the second entry sits on a faster endpoint
C6_Witness ==
    /\ Returned
    /\ ev_hint = FooMixed \o LATEST
    /\ Len(cfg.INVENTORY) = 2
    /\ HintNames(1)
    /\ ev_filtered # <<>>
    /\ ev_out.model = FOO
    /\ est_latency_s(cfg, cfg.INVENTORY[2].endpoint)
           < est_latency_s(cfg, cfg.INVENTORY[1].endpoint)
    /\ passes_constraints(cfg, cfg.INVENTORY[2], PromptTokens, MarginPct)

\* a keyword of the list occurs in the prompt, case-insensitively
KeywordOccurs(keywords) ==
    /\ ev_prompt # None
    /\ \E i \in 1..Len(keywords) : contains(lower(ev_prompt), lower(keywords[i]))

\* the strength tags whose keyword group the prompt triggers
TriggeredTags ==
    (IF KeywordOccurs(cfg.POLICY.prefer_reasoning_for) THEN {"reasoning"} ELSE {})
    \cup (IF KeywordOccurs(cfg.POLICY.prefer_coding_for) THEN {"coding"} ELSE {})

\* the inventory entries whose strength tags intersect the triggered groups
TaggedEntries ==
    SelectSeq(cfg.INVENTORY, LAMBDA meta : meta.strengths \cap TriggeredTags # {})

\* C7: when no hint resolves, the candidates are the entries whose strength
\* tags intersect the keyword groups the prompt triggers, and the full
\* inventory when no group triggers or no entry intersects.
C7_KeywordCandidates ==
    (Returned /\ ~HintResolves) =>
        ev_candidates = IF TaggedEntries # <<>> THEN TaggedEntries ELSE cfg.INVENTORY

\* C8: a candidate survives the filter exactly if its estimated tokens times
\* (1 + margin) are strictly below its context window and its required VRAM
\* is at most the VRAM of its endpoint's profile (0 without a profile); the
\* survivors keep the candidate order.
CtxFits(meta) ==
    LET ctx == IF meta.ctx_tokens = Missing THEN 4096
               ELSE CHOOSE x \in meta.ctx_tokens : TRUE
    IN  PromptTokens * (100 + MarginPct) < 100 * ctx

VramFits(meta) ==
    LET needed == IF meta.vram_req_gb = Missing THEN 0
               ELSE CHOOSE x \in meta.vram_req_gb : TRUE
        avail == IF meta.endpoint \in DOMAIN cfg.HARDWARE
                    /\ cfg.HARDWARE[meta.endpoint].vram_gb # Missing
                 THEN CHOOSE x \in cfg.HARDWARE[meta.endpoint].vram_gb : TRUE
                 ELSE 0
    IN  needed <= avail

C8_FilterExact ==
    Returned =>
        ev_filtered = SelectSeq(ev_candidates, LAMBDA meta : CtxFits(meta) /\ VramFits(meta))

\* a candidate whose product equals its context window was dropped although
\* its VRAM fits
C8_Witness ==
    /\ Returned
    /\ \E i \in 1..Len(ev_candidates) :
        /\ ev_candidates[i].ctx_tokens # Missing
        /\ PromptTokens * (100 + MarginPct)
               = 100 * (CHOOSE x \in ev_candidates[i].ctx_tokens : TRUE)
        /\ VramFits(ev_candidates[i])
        /\ \A j \in 1..Len(ev_filtered) : ev_filtered[j] # ev_candidates[i]

----------------------------------------------------------------------------
(* Properties of the normalizer, checked under SpecNormalize *)

\* C9: in every router implementation, normalize returns null for a null or
\* empty name and otherwise the lowercased name without one trailing
\* ":latest".
C9_NormalizeEverywhere ==
    nm_calls = 1 =>
        IF nm_in = None \/ nm_in = <<>>
        THEN nm_out = None
        ELSE IF endswith(lower(nm_in), LATEST)
             THEN nm_out \o LATEST = lower(nm_in)
             ELSE nm_out = lower(nm_in)

----------------------------------------------------------------------------
(* Properties of the forwarder, checked under Spec *)

\* C10: a call to /api/chat is made only right after the primary
\* /api/generate call of the same request ended with a 404, to the same
\* backend and at most once; it carries the primary call's prompt as one user
\* message with stream false and the model only when the resolved name is not
\* empty; a 404 of the primary call is always followed by it, and its result
\* is what forward_generate returns.
C10_ChatFallback ==
    /\ \A i \in 1..Len(calls) :
        calls[i].path = "/api/chat" =>
            /\ i = 2
            /\ calls[1].path = "/api/generate"
            /\ calls[1].outcome = "http_404"
            /\ calls[2].url = calls[1].url
            /\ calls[2].body.messages = <<[role |-> "user", content |-> calls[1].body.prompt]>>
            /\ calls[2].body.stream = FALSE
            /\ calls[2].body.model =
                   IF fwd.real_model = None \/ fwd.real_model = <<>>
                   THEN Missing ELSE Some(fwd.real_model)
            /\ calls[2].outcome = "ok" =>
                   fwd_ret = [from_url |-> calls[2].url, from_path |-> "/api/chat"]
            /\ calls[2].outcome \notin {"ok", "pending"} => fwd_ret = NoResponse
    /\ (calls # <<>> /\ calls[1].outcome = "http_404") =>
            Len(calls) = 2 /\ calls[2].path = "/api/chat"
    /\ Len(calls) <= 2

\* the primary call ended with a 404, the chat call without a model field
\* succeeded, and its result was returned and sent to the client
C10_Witness ==
    /\ Len(calls) = 2
    /\ calls[1].outcome = "http_404"
    /\ calls[2].path = "/api/chat"
    /\ calls[2].outcome = "ok"
    /\ calls[2].body.model = Missing
    /\ fwd_ret.from_path = "/api/chat"
    /\ resp.status = 200
    /\ resp.upstream_response = fwd_ret

\* the failures of a backend call that forward_generate does not handle
Failures(path) ==
    IF path = "/api/generate"
    THEN {"http_500", "network_error", "malformed_body"}
    ELSE {"http_404", "http_500", "network_error", "malformed_body"}

\* C11: when the primary call fails with an HTTP error other than 404, with a
\* network failure or with a malformed body, no further backend call is made
\* and the failure reaches the caller (a 500 carrying it, nothing returned by
\* forward_generate); a failure of the chat call is not retried either. One
\* forwarded request makes at most two backend calls, at most one per path.
C11_NoRetry ==
    /\ Len(calls) <= 2
    /\ \A i, j \in 1..Len(calls) : calls[i].path = calls[j].path => i = j
    /\ \A i \in 1..Len(calls) :
        calls[i].outcome \in Failures(calls[i].path) =>
            /\ i = Len(calls)
            /\ pc = "done"
            /\ fwd_ret = NoResponse
            /\ resp.status = 500
            /\ resp.error = calls[i].outcome
            /\ resp.upstream_response = NoResponse

\* the primary call of a /generate request ended with a 500 of the backend
C11_Witness ==
    /\ req.path = "/generate"
    /\ Len(calls) = 1
    /\ calls[1].path = "/api/generate"
    /\ calls[1].outcome = "http_500"
    /\ resp.status = 500

\* the name forward_generate resolves for the request of the state: the
\* upstream model (the decision's alias on /route_and_generate), else the
\* request's model, else the default model of the target, else empty
ResolvedName ==
    LET upstream == IF req.path = "/route_and_generate" THEN ev_out.model ELSE <<>>
        stated == IF req.body.model = Missing THEN <<>> ELSE Get(req.body.model, <<>>)
        default == IF target_key \in DOMAIN cfg.DEFAULT_MODELS
                   THEN cfg.DEFAULT_MODELS[target_key] ELSE <<>>
    IN  IF upstream # <<>> THEN upstream
        ELSE IF stated # <<>> THEN stated
        ELSE default

\* the inventory entries whose alias is the name and that name a real model
RealModels(name) ==
    {cfg.INVENTORY[i].real_model : i \in {j \in 1..Len(cfg.INVENTORY) :
        cfg.INVENTORY[j].alias = name /\ cfg.INVENTORY[j].real_model # Missing}}

\* C12: the model of the primary call's body is the resolved name (upstream
\* model, else request model, else endpoint default, else none), replaced by
\* the entry's real backend model when the name is an inventory alias.
C12_ModelResolution ==
    calls # <<>> =>
        calls[1].body.model =
            IF RealModels(ResolvedName) # {}
            THEN CHOOSE m \in RealModels(ResolvedName) : TRUE
            ELSE IF ResolvedName = <<>> THEN Missing ELSE Some(ResolvedName)

\* the decision's alias foo went out as llama3 although the request named zzz
C12_Witness ==
    /\ req.path = "/route_and_generate"
    /\ req.body.model = Some(ZZZ)
    /\ ev_out.model = FOO
    /\ calls # <<>>
    /\ calls[1].body.model = Some(LLAMA)

----------------------------------------------------------------------------
(* Properties of the heuristic endpoint choice, checked under SpecHeuristic *)

\* the prompt of the payload, lowercased; empty for an absent or null prompt
HeuristicPrompt ==
    LET prompt == Get(hu_payload.prompt, <<>>)
    IN  IF prompt = None THEN <<>> ELSE lower(prompt)

\* how many keywords of the i-th keyword list occur in the prompt
KeywordHits(i) ==
    Cardinality({j \in 1..Len(cfg.KEYWORDS[i].kws) :
                    contains(HeuristicPrompt, lower(cfg.KEYWORDS[i].kws[j]))})

\* the keyword lists with the highest hit count, when any keyword hits
BestKeywordLists ==
    {i \in 1..Len(cfg.KEYWORDS) :
        /\ KeywordHits(i) > 0
        /\ \A j \in 1..Len(cfg.KEYWORDS) : KeywordHits(j) <= KeywordHits(i)}

\* C13: pick_by_keywords returns the endpoint key whose keyword list has the
\* most case-insensitive substring hits in the prompt, and the fixed default
\* key when two or more keys tie for the highest count or no keyword hits.
C13_TiesToDefault ==
    hu_state = "picked" =>
        hu_key = IF Cardinality(BestKeywordLists) = 1
                 THEN cfg.KEYWORDS[CHOOSE i \in BestKeywordLists : TRUE].key
                 ELSE DEFAULT_TARGET

\* whether the payload's model normalizes to an alias of model_map
ModelMapResolves ==
    /\ Get(hu_payload.model, None) \notin {None, <<>>}
    /\ _normalize_alias(Get(hu_payload.model, None)) \in DOMAIN cfg.MODEL_MAP

\* C14: on the /generate path, when the request's model normalizes to an
\* alias of model_map the chosen endpoint is model_map[alias] whatever
\* keywords the prompt holds; pick_by_keywords decides only otherwise.
C14_ModelMapFirst ==
    (hu_state = "resolved" /\ ~hu_raised) =>
        hu_key = IF ModelMapResolves
                 THEN cfg.MODEL_MAP[_normalize_alias(Get(hu_payload.model, None))]
                 ELSE pick_by_keywords(cfg, Get(hu_payload.prompt, <<>>))

\* "Foo:latest" went to model_map's gpu0 although the prompt holds a keyword
\* of gpu1
C14_Witness ==
    /\ hu_state = "resolved"
    /\ ~hu_raised
    /\ hu_payload.model = Some(FooMixed \o LATEST)
    /\ hu_payload.prompt = Some(KW_PYTHON)
    /\ BestKeywordLists # {}
    /\ cfg.KEYWORDS[CHOOSE i \in BestKeywordLists : TRUE].key = "gpu1"
    /\ hu_key = "gpu0"

\* C15: for every prompt (empty or missing included) and every requested
\* model (none or unknown to model_map included) the heuristic decision
\* returns a key of the configured endpoints instead of failing.
C15_HeuristicGraceful ==
    hu_state = "resolved" => (~hu_raised /\ hu_key \in DOMAIN cfg.ENDPOINTS)

----------------------------------------------------------------------------
(* Properties of the gateway's routes, checked under Spec *)

\* C16: on /route_and_generate every backend call of the request goes to the
\* URL configured for the decision's endpoint key, made once the decision
\* exists, with the decision's alias as the upstream model (before the
\* request's model and the endpoint default; an inventory alias goes out as
\* its real model), and the response's router.target is the endpoint of the
\* decision it carries.
C16_ForwardFollowsDecision ==
    req.path = "/route_and_generate" =>
        /\ calls # <<>> =>
            /\ ev_state = "returned"
            /\ ev_out # NoDecision
            /\ ev_out.endpoint \in DOMAIN cfg.ENDPOINTS
            /\ \A i \in 1..Len(calls) : calls[i].url = cfg.ENDPOINTS[ev_out.endpoint]
            /\ calls[1].body.model =
                   IF RealModels(ev_out.model) # {}
                   THEN CHOOSE m \in RealModels(ev_out.model) : TRUE
                   ELSE Some(ev_out.model)
        /\ resp.status = 200 =>
            /\ resp.evaluator = ev_out
            /\ resp.target = resp.evaluator.endpoint
            /\ calls # <<>>

\* a request that names bar, whose own model the decision overrides: bar
\* does not fit gpu1, the CPU tier answers, and the cpu backend is called
\* with the decision's alias
C16_Witness ==
    /\ req.path = "/route_and_generate"
    /\ req.body.model = Some(BAR)
    /\ ev_out.endpoint = "cpu"
    /\ calls # <<>>
    /\ calls[1].url = URLS["cpu"]
    /\ calls[1].body.model = Some(GAR_ROUTER_LATEST)
    /\ resp.status = 200
    /\ resp.target = "cpu"

\* C17: an /evaluate request makes no backend call, appends no log record,
\* and leaves the configuration and the log as they were; it only sends its
\* response.
C17_EvaluateNoEffect ==
    [][(req.path = "/evaluate" \/ req'.path = "/evaluate") =>
          /\ calls' = <<>>
          /\ log' = log
          /\ cfg' = cfg
          /\ fwd' = NoForward]_vars

\* an /evaluate request was answered after an earlier request was logged
C17_Witness ==
    /\ req.path = "/evaluate"
    /\ pc = "done"
    /\ resp.status = 200
    /\ resp.evaluator # NoDecision
    /\ calls = <<>>
    /\ Len(log) = 1

\* C18: the log only grows by appending, existing lines stay as they are,
\* and a request that was forwarded to a backend (forward_generate returned
\* the backend's response) leaves exactly one record; any other request
\* leaves none.
C18_OneLinePerForward ==
    [][/\ Len(log') >= Len(log)
       /\ SubSeq(log', 1, Len(log)) = log
       /\ IF pc # "done" /\ pc' = "done"
          THEN Len(log') = Len(log) + (IF fwd_ret' # NoResponse THEN 1 ELSE 0)
          ELSE log' = log]_vars

\* C20: a request whose body is not JSON is not rejected; it is processed as
\* the empty request: /evaluate answers 200 with the decision for the empty
\* prompt and no hint.
C20_MalformedAsEmpty ==
    (pc = "done" /\ req.body.kind = "malformed") =>
        /\ resp.error # "JSONDecodeError"
        /\ req.path = "/evaluate" =>
            /\ resp.status = 200
            /\ resp.evaluator = evaluate_choice(cfg, <<>>, None)

----------------------------------------------------------------------------
(* Properties of the log file, checked under SpecLog *)

\* C19: with any number of threads in log_event at once, the file holds
\* every written record as one complete line and nothing but complete lines.
C19_CompleteLines ==
    /\ \A t \in Threads :
        lg_pc[t] = "closed" =>
            \E k \in 0..(Len(lg_file) - Len(lg_line[t])) :
                SubSeq(lg_file, k + 1, k + Len(lg_line[t])) = lg_line[t]
    /\ \A i \in 1..Len(lg_file) :
        LET b == lg_file[i]
        IN  /\ i - b.byte >= 0
            /\ i - b.byte + b.of <= Len(lg_file)
            /\ SubSeq(lg_file, i - b.byte + 1, i - b.byte + b.of) = Line(b.writer, b.of)

----------------------------------------------------------------------------
(* The enrichment of a decision, checked under SpecEval *)

\* whether q hundredths of a second is 150 tokens at rate tokens/second,
\* rounded to two decimals; a rate below 1 counts as 1
IsLatencyAt(q, rate) ==
    LET d == IF rate < 1 THEN 1 ELSE rate
        err == 150 * 100 - q * d
    IN  /\ 2 * err <= d
        /\ 2 * err >= -d

\* C27: every decision of evaluate_choice, ranked or from a fallback tier,
\* carries the latency estimate of its own endpoint, round(150 / max(1,
\* tokens per second), 2), and the prompt token count and margin that were
\* used.
C27_LatencyOfChosen ==
    Returned =>
        /\ IsLatencyAt(ev_out.est_latency_s, TokensPerSecond(ev_out.endpoint))
        /\ ev_out.prompt_tokens = PromptTokens
        /\ ev_out.ctx_margin = MarginPct

\* a first-available decision for an endpoint of 40 tokens/second: 3.75 s
C27_Witness ==
    /\ Returned
    /\ ev_out.reason = REASON_FIRST_AVAILABLE
    /\ TokensPerSecond(ev_out.endpoint) = 40
    /\ ev_out.est_latency_s = 375
    /\ ev_out.prompt_tokens = MaxPromptTokens

----------------------------------------------------------------------------
(* Idempotence of the normalizer, checked under SpecNormalize *)

\* C30: _normalize_alias of gar_router.py is idempotent: normalizing its own
\* output returns that output unchanged, for every input string.
C30_Idempotent ==
    [][(impl = "gar_router" /\ nm_calls = 1 /\ nm_calls' = 2) => nm_out' = nm_out]_vars

----------------------------------------------------------------------------
(* Error handling of the gateway, checked under Spec *)

ForwardingPaths == {"/generate", "/route_and_generate"}

\* whether handling the request of the state raised: the body is no JSON,
\* the endpoint lookup failed (a forwarding route that made no call), the
\* last backend call failed, or building the log record failed
RequestFailed ==
    \/ req.body.kind = "malformed"
    \/ req.path \in ForwardingPaths /\ calls = <<>>
    \/ calls # <<>> /\ calls[Len(calls)].outcome # "ok"
    \/ fwd_ret # NoResponse /\ fwd.prompt = None

\* C21: every error raised while a request is handled is caught in do_POST
\* and answered with an error status and {error: message}; the handler never
\* ends unanswered, and the gateway goes on to serve the next request.
C21_ErrorsAnswered ==
    /\ pc \in {"idle", "gen_wait", "chat_wait", "done"}
    /\ pc = "done" =>
        /\ resp.status \in {200, 404, 500}
        /\ RequestFailed =>
            /\ resp.status = 500
            /\ resp.error # ""
            /\ resp.upstream_response = NoResponse
        /\ resp.status = 200 => (~RequestFailed /\ resp.error = "")
        /\ ENABLED Return
    /\ (pc = "idle" /\ served < MaxRequests) => ENABLED Receive

\* the second request was answered with the backend's failure
C21_Witness ==
    /\ served = MaxRequests
    /\ pc = "done"
    /\ calls # <<>>
    /\ calls[Len(calls)].outcome = "network_error"
    /\ resp.status = 500
    /\ resp.error = "network_error"

\* C22: a decision whose endpoint key is not among the configured endpoints
\* (or that lacks an alias or endpoint) is never forwarded: no backend call
\* is made and the caller gets a 500 whose body echoes the decision.
C22_InvalidDecisionEchoed ==
    (/\ pc = "done"
     /\ req.path = "/route_and_generate"
     /\ ev_state = "returned"
     /\ (ev_out.endpoint \notin DOMAIN cfg.ENDPOINTS \/ ev_out.model = <<>>)) =>
        /\ calls = <<>>
        /\ resp.status = 500
        /\ resp.evaluator = ev_out

\* C23: when forwarding fails, the error sent to the caller names the
\* endpoint key the request was sent to, together with the underlying
\* message.
C23_ErrorNamesEndpoint ==
    (pc = "done" /\ calls # <<>> /\ calls[Len(calls)].outcome # "ok") =>
        /\ resp.status = 500
        /\ resp.error = calls[Len(calls)].outcome
        /\ resp.target = target_key

\* C24: the gateway never serves a request under a configuration in which
\* an inventory entry names an endpoint key that is not in the endpoint set.
C24_ConsistentWhenServing ==
    served > 0 =>
        \A i \in 1..Len(cfg.INVENTORY) : cfg.INVENTORY[i].endpoint \in DOMAIN cfg.ENDPOINTS

\* C28: on a forwarding route, whenever the backend call succeeded the
\* client gets a 200 carrying the upstream response, and the log's last line
\* is the record of this request, for every payload (a missing or null
\* prompt included).
C28_SuccessLogged ==
    (pc = "done" /\ req.path \in ForwardingPaths /\ fwd_ret # NoResponse) =>
        /\ resp.status = 200
        /\ resp.upstream_response = fwd_ret
        /\ log # <<>>
        /\ log[Len(log)].target = target_key
        /\ log[Len(log)].endpoint = cfg.ENDPOINTS[target_key]

\* C29: whenever the name forward_generate resolves normalizes to an
\* inventory alias, the model sent to the backend is that entry's real model
\* name, never the alias as the request spelled it.
C29_RealModelSent ==
    (calls # <<>> /\ ResolvedName # <<>>
     /\ RealModels(_normalize_alias(ResolvedName)) # {}) =>
        calls[1].body.model = CHOOSE m \in RealModels(_normalize_alias(ResolvedName)) : TRUE

----------------------------------------------------------------------------
(* The evaluator proxy's pipeline, checked under SpecProxy *)

\* whether the router's answer is a decision the proxy may forward
ProxyDecisionUsable ==
    /\ px_ev.model \notin {Missing, Some(<<>>)}
    /\ px_ev.endpoint \notin {Missing, Some("")}
    /\ \E k \in DOMAIN cfg.ENDPOINTS : px_ev.endpoint = Some(k)

\* the model the proxy is to send: the decision's real model, else the
\* inventory's real model of the decided alias, else the alias
ProxyModel ==
    LET alias == CHOOSE a \in px_ev.model : TRUE
    IN  IF px_ev.real_model \notin {Missing, Some(<<>>)} THEN px_ev.real_model
        ELSE IF RealModels(alias) # {} THEN CHOOSE m \in RealModels(alias) : TRUE
        ELSE Some(alias)

\* C26: the proxy's /api/generate first asks the router's /evaluate and then
\* makes exactly one backend call, to the decision's endpoint, with the model
\* set to the decision's real model, else the inventory's real model of the
\* alias, else the alias; the backend's body is returned unchanged; the
\* backend is never called when /evaluate fails or the decision is invalid.
C26_ProxyPipeline ==
    /\ Len(px_calls) <= 2
    /\ px_calls # <<>> => (px_calls[1].url = ROUTER_BASE /\ px_calls[1].path = "/evaluate")
    /\ Len(px_calls) = 2 =>
        /\ px_calls[1].outcome = "ok"
        /\ ProxyDecisionUsable
        /\ px_calls[2].url = cfg.ENDPOINTS[CHOOSE k \in px_ev.endpoint : TRUE]
        /\ px_calls[2].path = "/api/generate"
        /\ px_calls[2].body.model = ProxyModel
        /\ px_calls[2].body.prompt = px_body.prompt
    /\ px_pc = "done" =>
        /\ (px_calls # <<>> /\ px_calls[1].outcome = "ok" /\ ProxyDecisionUsable) =>
                Len(px_calls) = 2
        /\ px_resp.status = 200 <=> (Len(px_calls) = 2 /\ px_calls[2].outcome = "ok")
        /\ px_resp.status = 200 =>
                px_resp.content = [from_url |-> px_calls[2].url, from_path |-> "/api/generate"]
        /\ px_resp.status # 200 => (px_resp.status = 500 /\ px_resp.content = NoResponse)

\* the decision named the alias foo without a real model: the backend of
\* gpu0 was called with the inventory's llama3 and its body was returned
C26_Witness ==
    /\ px_pc = "done"
    /\ px_ev = ProxyDecision(Some(FOO), Some("gpu0"), Missing)
    /\ Len(px_calls) = 2
    /\ px_calls[2].url = URLS["gpu0"]
    /\ px_calls[2].body.model = Some(LLAMA)
    /\ px_resp.status = 200
    /\ px_resp.content.from_url = URLS["gpu0"]

----------------------------------------------------------------------------
(* Independence of concurrent requests, checked under SpecConc *)

\* the decision the gateway makes for a request it handles alone
AloneDecision(request) ==
    IF request.path = "/generate" THEN NoDecision
    ELSE evaluate_choice(cfg, Get(request.body.prompt, <<>>), Get(request.body.model, None))

\* the endpoint key a request handled alone is forwarded to
AloneTarget(request) ==
    IF request.path = "/generate"
    THEN resolve_target(cfg, Payload(request.body, Missing))
    ELSE AloneDecision(request).endpoint

\* the name a request handled alone resolves for the backend
AloneName(request) ==
    LET stated == Get(request.body.model, <<>>)
        default == IF AloneTarget(request) \in DOMAIN cfg.DEFAULT_MODELS
                   THEN cfg.DEFAULT_MODELS[AloneTarget(request)] ELSE <<>>
    IN  IF request.path = "/route_and_generate" THEN AloneDecision(request).model
        ELSE IF stated # <<>> THEN stated
        ELSE default

\* the model field of the body a request handled alone sends
AloneModel(request) ==
    IF RealModels(AloneName(request)) # {}
    THEN CHOOSE m \in RealModels(AloneName(request)) : TRUE
    ELSE IF AloneName(request) = <<>> THEN Missing ELSE Some(AloneName(request))

\* C25: under any interleaving of the handler threads, the decision and the
\* backend call of every request are those of the request handled alone (a
\* function of its payload and the configuration), and the configuration
\* never changes.
C25_Independent ==
    /\ [](\A t \in Handlers :
            th_pc[t] \in {"gen_wait", "chat_wait", "done"} =>
                /\ th_ev[t] = AloneDecision(th_req[t])
                /\ th_req[t].path = "/evaluate" => th_calls[t] = <<>>
                /\ th_calls[t] # <<>> =>
                    /\ th_calls[t][1].url = cfg.ENDPOINTS[AloneTarget(th_req[t])]
                    /\ th_calls[t][1].path = "/api/generate"
                    /\ th_calls[t][1].body.prompt = Get(th_req[t].body.prompt, <<>>)
                    /\ th_calls[t][1].body.model = AloneModel(th_req[t]))
    /\ [][cfg' = cfg]_vars

\* two requests in flight at once, each with its own target: thread 1
\* forwards by keyword to gpu1, thread 2 by the decision to gpu0 with llama3
C25_Witness ==
    /\ th_pc[1] = "gen_wait"
    /\ th_calls[1][1].url = URLS["gpu1"]
    /\ th_pc[2] = "chat_wait"
    /\ th_req[2].path = "/route_and_generate"
    /\ th_calls[2][1].body.model = Some(LLAMA)
    /\ th_ev[2].endpoint = "gpu0"

====
